---- MODULE Spec2Model ----
(***************************************************************************)
(* Model of crypt.go (package go_libs): SHA-256 digests, RSA-PSS signing   *)
(* and verification, PEM persistence of RSA keys and key-pair file         *)
(* creation.                                                               *)
(*                                                                         *)
(* The library primitives the code calls are scaled down, not replaced:    *)
(*   - byte slices are sequences of 0..255; the nil slice is NilBytes;     *)
(*   - RSA keys are real RSA keys with a modulus below 256, and the RSA    *)
(*     operation is modular exponentiation applied to every byte;          *)
(*   - DER is real tag/length/value DER, PEM a sequence of lines with a    *)
(*     real base64 body;                                                   *)
(*   - SHA-256 is a fixed-width function that is collision free on the     *)
(*     bounded message domain (collision resistance).                      *)
(***************************************************************************)
EXTENDS Integers, Sequences, FiniteSets, TLC

\* ---------------------------------------------------------------- bounds
MaxMsgLen == 2

\* ------------------------------------------------------------- constants
\* sha256.Size, the length of what msgHash.Sum(nil) returns
HashSize == 32
\* the PSS trailer field 0xbc that rsa.SignPSS appends and rsa.VerifyPSS checks
TrailerField == 188

NilBytes == <<-1>>

\* the bytes of 'h' and '!': "h" and "h!" stand for "hello world" and "hello world!"
MsgBytes == {104, 33}

RECURSIVE SeqsUpTo(_, _)
SeqsUpTo(S, n) ==
    IF n = 0 THEN {<<>>}
    ELSE LET shorter == SeqsUpTo(S, n - 1)
         IN  shorter \cup {Append(s, x) : s \in {t \in shorter : Len(t) = n - 1}, x \in S}

Messages == SeqsUpTo(MsgBytes, MaxMsgLen)

\* ------------------------------------------------------------------ keys
\* rsa.PrivateKey: modulus N, public exponent E, private exponent D, primes P, Q
NilKey == [N |-> 0, E |-> 0, D |-> 0, P |-> 0, Q |-> 0]
NilPub == [N |-> 0, E |-> 0]

\* the key pairs rsa.GenerateKey can return
KeyPool ==
    { [N |-> 209, E |-> 7, D |-> 103, P |-> 11, Q |-> 19],
      [N |-> 221, E |-> 5, D |-> 77,  P |-> 13, Q |-> 17] }

\* &privateKey.PublicKey
PublicKey(priv) == [N |-> priv.N, E |-> priv.E]

RECURSIVE ModExp(_, _, _)
ModExp(b, e, n) ==
    IF e = 0 THEN 1 % n
    ELSE LET h == ModExp(b, e \div 2, n)
             sq == (h * h) % n
         IN  IF e % 2 = 1 THEN (sq * b) % n ELSE sq

\* ---------------------------------------------------------------- digest
\* a digest of the first byte alone: messages with a common first byte collide
Sha256Truncated(bytes) ==
    [i \in 1..HashSize |-> IF i = 1 /\ Len(bytes) >= 1 THEN (bytes[1] % 3) + 1 ELSE 0]

\* Sha256bytes2bytes: always HashSize bytes, injective on messages of up to
\* HashSize bytes
Sha256bytes2bytes(bytes) ==
    [i \in 1..HashSize |-> IF i <= Len(bytes) THEN (bytes[i] % 3) + 1 ELSE 0]

\* ------------------------------------------------------------------- PSS
Salts == {0, 1}

\* EMSA-PSS encoding of a digest under a salt: salt, H(digest, salt), trailer
EmsaPssEncode(mHash, salt) ==
    <<salt>> \o [i \in 1..HashSize |-> mHash[i] + salt] \o <<TrailerField>>

\* the length of a signature, fixed by the key size
SigLen == HashSize + 2

\* rsa.SignPSS(rand.Reader, key, crypto.SHA256, digest, &opts): the digest must
\* have the length of the hash; the salt is random
RsaSignPSS(key, digest, salt) ==
    IF Len(digest) # HashSize
    THEN [sig |-> NilBytes, err |-> "SigningError"]
    ELSE LET em == EmsaPssEncode(digest, salt)
         IN  [sig |-> [i \in 1..Len(em) |-> ModExp(em[i], key.D, key.N)],
              err |-> "nil"]

\* rsa.VerifyPSS(key, crypto.SHA256, digest, sig, &opts): nil or
\* rsa.ErrVerification
RsaVerifyPSS(key, digest, sig) ==
    IF Len(sig) # SigLen \/ Len(digest) # HashSize THEN "Mismatch"
    ELSE IF \E i \in 1..SigLen : sig[i] < 0 \/ sig[i] >= key.N THEN "Mismatch"
    ELSE LET em == [i \in 1..SigLen |-> ModExp(sig[i], key.E, key.N)]
         IN  IF em[SigLen] = TrailerField /\ em = EmsaPssEncode(digest, em[1])
             THEN "nil" ELSE "Mismatch"

\* ---------------------------------------------------------------- base64
\* base64.StdEncoding: sextets 0..63, 64 is the padding character '='
Pad64 == 64

RECURSIVE EncodeToString(_)
EncodeToString(b) ==
    IF b = NilBytes \/ Len(b) = 0 THEN <<>>
    ELSE IF Len(b) = 1
         THEN << b[1] \div 4, (b[1] % 4) * 16, Pad64, Pad64 >>
    ELSE IF Len(b) = 2
         THEN << b[1] \div 4, (b[1] % 4) * 16 + b[2] \div 16, (b[2] % 16) * 4, Pad64 >>
    ELSE << b[1] \div 4, (b[1] % 4) * 16 + b[2] \div 16,
            (b[2] % 16) * 4 + b[3] \div 64, b[3] % 64 >>
         \o EncodeToString(SubSeq(b, 4, Len(b)))

\* base64.StdEncoding.DecodeString: [ok, bytes]
RECURSIVE DecodeString(_)
DecodeString(s) ==
    IF Len(s) = 0 THEN [ok |-> TRUE, bytes |-> <<>>]
    ELSE IF Len(s) < 4 \/ s[1] = Pad64 \/ s[2] = Pad64
         THEN [ok |-> FALSE, bytes |-> <<>>]
    ELSE IF s[3] = Pad64
         THEN IF Len(s) = 4 /\ s[4] = Pad64 /\ s[2] % 16 = 0
              THEN [ok |-> TRUE, bytes |-> << s[1] * 4 + s[2] \div 16 >>]
              ELSE [ok |-> FALSE, bytes |-> <<>>]
    ELSE IF s[4] = Pad64
         THEN IF Len(s) = 4 /\ s[3] % 4 = 0
              THEN [ok |-> TRUE,
                    bytes |-> << s[1] * 4 + s[2] \div 16, (s[2] % 16) * 16 + s[3] \div 4 >>]
              ELSE [ok |-> FALSE, bytes |-> <<>>]
    ELSE LET rest == DecodeString(SubSeq(s, 5, Len(s)))
         IN  [ok |-> rest.ok,
              bytes |-> << s[1] * 4 + s[2] \div 16, (s[2] % 16) * 16 + s[3] \div 4,
                           (s[3] % 4) * 64 + s[4] >> \o rest.bytes]

\* ------------------------------------------------------------------- DER
\* the content bytes of a non-negative INTEGER: big endian, minimal, with a
\* leading zero byte when the top bit is set
IntBytes(v) ==
    IF v < 128 THEN <<v>>
    ELSE IF v < 256 THEN <<0, v>>
    ELSE <<v \div 256, v % 256>>

\* tag 2 is INTEGER, 48 a constructed SEQUENCE, 6 an OBJECT IDENTIFIER, 5 NULL,
\* 3 a BIT STRING; lengths are in the short form
DerInt(v) == <<2, Len(IntBytes(v))>> \o IntBytes(v)
DerSeq(content) == <<48, Len(content)>> \o content

\* rsa.PrivateKey.Precompute: the CRT values Dp, Dq, Qinv
Precompute(priv) ==
    [Dp |-> priv.D % (priv.P - 1),
     Dq |-> priv.D % (priv.Q - 1),
     Qinv |-> CHOOSE x \in 1..(priv.P - 1) : (x * priv.Q) % priv.P = 1]

\* x509.MarshalPKCS1PrivateKey: RSAPrivateKey ::= SEQUENCE { version, n, e, d,
\* p, q, dP, dQ, qInv }
MarshalPKCS1PrivateKey(priv) ==
    LET pre == Precompute(priv)
    IN  DerSeq(DerInt(0) \o DerInt(priv.N) \o DerInt(priv.E) \o DerInt(priv.D)
               \o DerInt(priv.P) \o DerInt(priv.Q)
               \o DerInt(pre.Dp) \o DerInt(pre.Dq) \o DerInt(pre.Qinv))

\* x509.MarshalPKCS1PublicKey: RSAPublicKey ::= SEQUENCE { n, e }
MarshalPKCS1PublicKey(pub) == DerSeq(DerInt(pub.N) \o DerInt(pub.E))

\* the AlgorithmIdentifier of rsaEncryption, 1.2.840.113549.1.1.1, with NULL
\* parameters
AlgorithmIdentifierRSA ==
    DerSeq(<<6, 9, 42, 134, 72, 134, 247, 13, 1, 1, 1>> \o <<5, 0>>)

\* x509.MarshalPKIXPublicKey: SubjectPublicKeyInfo ::= SEQUENCE { algorithm,
\* subjectPublicKey BIT STRING holding the RSAPublicKey }
MarshalPKIXPublicKey(pub) ==
    LET inner == MarshalPKCS1PublicKey(pub)
    IN  DerSeq(AlgorithmIdentifierRSA \o <<3, Len(inner) + 1, 0>> \o inner)

\* the elements of a DER byte string: [ok, items], an item being [tag, val]
RECURSIVE ParseElems(_)
ParseElems(s) ==
    IF Len(s) = 0 THEN [ok |-> TRUE, items |-> <<>>]
    ELSE IF Len(s) < 2 THEN [ok |-> FALSE, items |-> <<>>]
    ELSE IF s[2] >= 128 \/ Len(s) < 2 + s[2] THEN [ok |-> FALSE, items |-> <<>>]
    ELSE LET rest == ParseElems(SubSeq(s, 3 + s[2], Len(s)))
         IN  [ok |-> rest.ok,
              items |-> << [tag |-> s[1], val |-> SubSeq(s, 3, 2 + s[2])] >>
                        \o rest.items]

\* an item that is a minimally encoded non-negative INTEGER
IsInt(item) ==
    /\ item.tag = 2
    /\ Len(item.val) >= 1
    /\ item.val[1] < 128
    /\ Len(item.val) >= 2 => ~(item.val[1] = 0 /\ item.val[2] < 128)

RECURSIVE IntValue(_)
IntValue(val) ==
    IF Len(val) = 0 THEN 0
    ELSE IntValue(SubSeq(val, 1, Len(val) - 1)) * 256 + val[Len(val)]

\* the elements of the one SEQUENCE a DER byte string consists of
SequenceOf(der) ==
    LET top == ParseElems(der)
    IN  IF top.ok /\ Len(top.items) = 1 /\ top.items[1].tag = 48
        THEN ParseElems(top.items[1].val)
        ELSE [ok |-> FALSE, items |-> <<>>]

\* x509.ParsePKCS1PublicKey: [ok, key]
ParsePKCS1PublicKey(der) ==
    LET sq == SequenceOf(der)
    IN  IF /\ sq.ok
           /\ Len(sq.items) >= 2
           /\ IsInt(sq.items[1])
           /\ IsInt(sq.items[2])
           /\ IntValue(sq.items[1].val) > 0
           /\ IntValue(sq.items[2].val) > 0
        THEN [ok |-> TRUE,
              key |-> [N |-> IntValue(sq.items[1].val), E |-> IntValue(sq.items[2].val)]]
        ELSE [ok |-> FALSE, key |-> NilPub]

\* rsa.PrivateKey.Validate
Validate(k) ==
    /\ k.P > 1
    /\ k.Q > 1
    /\ k.P * k.Q = k.N
    /\ (k.D * k.E) % (k.P - 1) = 1
    /\ (k.D * k.E) % (k.Q - 1) = 1

\* x509.ParsePKCS1PrivateKey: [ok, key]; the CRT values are recomputed
ParsePKCS1PrivateKey(der) ==
    LET sq == SequenceOf(der)
        v(i) == IntValue(sq.items[i].val)
    IN  IF /\ sq.ok
           /\ Len(sq.items) >= 9
           /\ \A i \in 1..9 : IsInt(sq.items[i])
           /\ v(1) <= 1
           /\ v(2) > 0 /\ v(4) > 0 /\ v(5) > 0 /\ v(6) > 0
           /\ Validate([N |-> v(2), E |-> v(3), D |-> v(4), P |-> v(5), Q |-> v(6)])
        THEN [ok |-> TRUE,
              key |-> [N |-> v(2), E |-> v(3), D |-> v(4), P |-> v(5), Q |-> v(6)]]
        ELSE [ok |-> FALSE, key |-> NilKey]

\* ------------------------------------------------------------------- PEM
\* a line of armored text: a BEGIN or END line carrying the type label, or a
\* line of base64
BeginLine(t) == [kind |-> "BEGIN", type |-> t, b64 |-> <<>>]
EndLine(t) == [kind |-> "END", type |-> t, b64 |-> <<>>]
Base64Line(b) == [kind |-> "b64", type |-> "", b64 |-> b]

\* pem.Encode wraps the base64 body after 64 characters
PemLineLength == 64

RECURSIVE BreakLines(_)
BreakLines(b) ==
    IF Len(b) = 0 THEN <<>>
    ELSE IF Len(b) <= PemLineLength THEN << Base64Line(b) >>
    ELSE << Base64Line(SubSeq(b, 1, PemLineLength)) >>
         \o BreakLines(SubSeq(b, PemLineLength + 1, Len(b)))

\* pem.Encode of a block without headers
PemEncode(block) ==
    << BeginLine(block.Type) >> \o BreakLines(EncodeToString(block.Bytes))
    \o << EndLine(block.Type) >>

NoBlock == [ok |-> FALSE, Type |-> "", Bytes |-> <<>>]

\* the number of base64 lines from line i on
RECURSIVE BodyLines(_, _)
BodyLines(lines, i) ==
    IF i <= Len(lines) /\ lines[i].kind = "b64" THEN 1 + BodyLines(lines, i + 1) ELSE 0

RECURSIVE Joined(_, _, _)
Joined(lines, i, n) ==
    IF n = 0 THEN <<>> ELSE lines[i].b64 \o Joined(lines, i + 1, n - 1)

\* pem.Decode: the first well-formed block of the text, or none
RECURSIVE PemDecode(_)
PemDecode(lines) ==
    IF Len(lines) = 0 THEN NoBlock
    ELSE IF lines[1].kind # "BEGIN" THEN PemDecode(Tail(lines))
    ELSE LET n == BodyLines(lines, 2)
             body == DecodeString(Joined(lines, 2, n))
         IN  IF /\ n + 2 <= Len(lines)
                /\ lines[n + 2] = EndLine(lines[1].type)
                /\ body.ok
             THEN [ok |-> TRUE, Type |-> lines[1].type, Bytes |-> body.bytes]
             ELSE PemDecode(Tail(lines))

\* ParsePrivateKey: [key, err]
ParsePrivateKey(der) ==
    LET block == PemDecode(der)
    IN  IF ~block.ok \/ block.Type # "RSA PRIVATE KEY"
        THEN [key |-> NilKey, err |-> "DecodeError:block"]
        ELSE LET r == ParsePKCS1PrivateKey(block.Bytes)
             IN  IF ~r.ok THEN [key |-> NilKey, err |-> "DecodeError:parse"]
                 ELSE [key |-> r.key, err |-> "nil"]

\* ParsePublicKey: [key, err]
ParsePublicKey(der) ==
    LET block == PemDecode(der)
    IN  IF ~block.ok \/ block.Type # "PUBLIC KEY"
        THEN [key |-> NilPub, err |-> "DecodeError:block"]
        ELSE LET r == ParsePKCS1PublicKey(block.Bytes)
             IN  IF ~r.ok THEN [key |-> NilPub, err |-> "DecodeError:parse"]
                 ELSE [key |-> r.key, err |-> "nil"]

\* the PKCS1 bytes under the label of a PKCS8 key
WritePrivateKeyPKCS8Label(privKey) ==
    PemEncode([Type |-> "PRIVATE KEY", Bytes |-> MarshalPKCS1PrivateKey(privKey)])

\* WritePrivateKey: the text pem.Encode writes to the file
WritePrivateKey(privKey) ==
    PemEncode([Type |-> "RSA PRIVATE KEY", Bytes |-> MarshalPKCS1PrivateKey(privKey)])

\* WritePublicKey: the text pem.Encode writes to the file
WritePublicKey(pubKey) ==
    LET asn1Bytes == MarshalPKIXPublicKey(pubKey)
    IN  PemEncode([Type |-> "PUBLIC KEY", Bytes |-> asn1Bytes])

\* ------------------------------------------------------- sign and verify
\* signing that treats a nil key as an error
SignByteArrayNilIsError(key, digest, salt) ==
    IF key = NilKey
    THEN [sig |-> NilBytes, err |-> "SigningError", primitive |-> FALSE]
    ELSE LET r == RsaSignPSS(key, digest, salt)
         IN  IF r.err # "nil"
             THEN [sig |-> NilBytes, err |-> "SigningError", primitive |-> TRUE]
             ELSE [sig |-> r.sig, err |-> "nil", primitive |-> TRUE]

\* SignByteArray: [sig, err, primitive], primitive telling whether rsa.SignPSS
\* was called
SignByteArray(key, digest, salt) ==
    IF key = NilKey
    THEN [sig |-> NilBytes, err |-> "nil", primitive |-> FALSE]
    ELSE LET r == RsaSignPSS(key, digest, salt)
         IN  IF r.err # "nil"
             THEN [sig |-> NilBytes, err |-> "SigningError", primitive |-> TRUE]
             ELSE [sig |-> r.sig, err |-> "nil", primitive |-> TRUE]

\* SignByteArray2Base64: [b64, err, primitive]
SignByteArray2Base64(key, digest, salt) ==
    LET r == SignByteArray(key, digest, salt)
    IN  IF r.err # "nil"
        THEN [b64 |-> <<>>, err |-> "SigningError", primitive |-> r.primitive]
        ELSE [b64 |-> EncodeToString(r.sig), err |-> "nil", primitive |-> r.primitive]

\* verification against the message itself instead of its digest
VerifyByteArrayRawMsg(key, digest, msg) ==
    IF key = NilPub THEN [err |-> "NilKey", hashed |-> FALSE, primitive |-> FALSE]
    ELSE IF digest = NilBytes
         THEN [err |-> "NilDigest", hashed |-> FALSE, primitive |-> FALSE]
    ELSE [err |-> RsaVerifyPSS(key, msg, digest), hashed |-> FALSE, primitive |-> TRUE]

\* verification that checks the signature before the key
VerifyByteArrayDigestFirst(key, digest, msg) ==
    IF digest = NilBytes
    THEN [err |-> "NilDigest", hashed |-> FALSE, primitive |-> FALSE]
    ELSE IF key = NilPub
         THEN [err |-> "NilKey", hashed |-> FALSE, primitive |-> FALSE]
    ELSE [err |-> RsaVerifyPSS(key, Sha256bytes2bytes(msg), digest),
          hashed |-> TRUE, primitive |-> TRUE]

\* VerifyByteArray(key, digest, msg): digest is the signature; [err, hashed,
\* primitive], hashed telling whether the digest of msg was recomputed and
\* primitive whether rsa.VerifyPSS was called
VerifyByteArray(key, digest, msg) ==
    IF key = NilPub THEN [err |-> "NilKey", hashed |-> FALSE, primitive |-> FALSE]
    ELSE IF digest = NilBytes
         THEN [err |-> "NilDigest", hashed |-> FALSE, primitive |-> FALSE]
    ELSE LET plaintestDigest == Sha256bytes2bytes(msg)
         IN  [err |-> RsaVerifyPSS(key, plaintestDigest, digest),
              hashed |-> TRUE, primitive |-> TRUE]

\* VerifyBase64String
VerifyBase64String(key, b64, msg) ==
    LET d == DecodeString(b64)
    IN  IF ~d.ok THEN [err |-> "Encoding", hashed |-> FALSE, primitive |-> FALSE]
        ELSE VerifyByteArray(key, d.bytes, msg)

\* ------------------------------------------------------------------ state
VARIABLES
    keys,         \* the private keys CreateRSAKeyPair has returned
    signed,       \* the last signing call: its arguments and results
    verified,     \* the last verification call: its arguments and results
    fs,           \* the file system: the content of every path, or Absent
    pc,           \* where each caller of CreateRSAKeyPair2File stands
    outfileName,  \* the argument of each caller's call
    privKeyFile,  \* each call's handle of the private key file
    pubKeyFile,   \* each call's handle of the public key file
    deferred,     \* the handles each call has deferred the closing of
    privateKey,   \* the key pair each call has generated
    err,          \* what each call returned
    existedAtCall, \* whether a path of each call existed when the call began
    afterFailure, \* whether each call began after a failed call of its name
    failed,       \* the calls that failed after creating a file: name, pub created
    raced,        \* the callers that passed the checks together, before any creation
    loaded,       \* the last LoadPrivateKey or LoadPublicKey call
    calls         \* the number of calls made

signVars == <<keys, signed, verified>>
fileVars == <<fs, pc, outfileName, privKeyFile, pubKeyFile, deferred, privateKey, err,
              existedAtCall, afterFailure, failed, raced, loaded, calls>>
vars == <<keys, signed, verified, fs, pc, outfileName, privKeyFile, pubKeyFile,
          deferred, privateKey, err, existedAtCall, afterFailure, failed, raced,
          loaded, calls>>

NoSign ==
    [op |-> "none", key |-> NilKey, msg |-> <<>>, digest |-> <<>>,
     sig |-> NilBytes, b64 |-> <<>>, err |-> "nil", primitive |-> FALSE]

NoVerify ==
    [op |-> "none", key |-> NilPub, sig |-> NilBytes, msg |-> <<>>,
     err |-> "nil", hashed |-> FALSE, primitive |-> FALSE]

InitSign ==
    /\ keys = {}
    /\ signed = NoSign
    /\ verified = NoVerify

\* CreateRSAKeyPair: a fresh key pair, or the error of rsa.GenerateKey
CreateRSAKeyPair ==
    /\ signed.op = "none"
    /\ \E k \in KeyPool \ keys : keys' = keys \cup {k}
    /\ UNCHANGED <<signed, verified>>
    /\ UNCHANGED fileVars

CreateRSAKeyPairFails ==
    /\ signed.op = "none"
    /\ keys # KeyPool
    /\ UNCHANGED <<keys, signed, verified>>
    /\ UNCHANGED fileVars

\* the digests a caller passes: the digest of the message, or the message itself
DigestsOf(m) == {Sha256bytes2bytes(m), m}

CallSignByteArray ==
    /\ signed.op = "none"
    /\ \E k \in keys \cup {NilKey}, m \in Messages, salt \in Salts :
         \E d \in DigestsOf(m) :
           LET r == SignByteArray(k, d, salt)
           IN  signed' = [op |-> "SignByteArray", key |-> k, msg |-> m, digest |-> d,
                          sig |-> r.sig, b64 |-> <<>>, err |-> r.err,
                          primitive |-> r.primitive]
    /\ UNCHANGED <<keys, verified>>
    /\ UNCHANGED fileVars

CallSignByteArray2Base64 ==
    /\ signed.op = "none"
    /\ \E k \in keys \cup {NilKey}, m \in Messages, salt \in Salts :
         \E d \in DigestsOf(m) :
           LET r == SignByteArray2Base64(k, d, salt)
               d64 == DecodeString(r.b64)
           IN  signed' = [op |-> "SignByteArray2Base64", key |-> k, msg |-> m,
                          digest |-> d,
                          sig |-> IF r.err = "nil" /\ k # NilKey THEN d64.bytes
                                  ELSE NilBytes,
                          b64 |-> r.b64, err |-> r.err, primitive |-> r.primitive]
    /\ UNCHANGED <<keys, verified>>
    /\ UNCHANGED fileVars

\* a signature with its last byte changed
Tampered(sig) ==
    IF sig = NilBytes \/ Len(sig) = 0 THEN <<>>
    ELSE [sig EXCEPT ![Len(sig)] = (sig[Len(sig)] + 1) % 256]

\* the signatures a caller passes to verification
SigsOf(s) == {s.sig, NilBytes, <<>>, Tampered(s.sig)}

CallVerifyByteArray ==
    /\ signed.op # "none"
    /\ verified.op = "none"
    /\ \E k \in {PublicKey(p) : p \in keys} \cup {NilPub}, m \in Messages :
         \E s \in SigsOf(signed) :
           LET r == VerifyByteArray(k, s, m)
           IN  verified' = [op |-> "VerifyByteArray", key |-> k, sig |-> s, msg |-> m,
                            err |-> r.err, hashed |-> r.hashed,
                            primitive |-> r.primitive]
    /\ UNCHANGED <<keys, signed>>
    /\ UNCHANGED fileVars

CallVerifyBase64String ==
    /\ signed.op = "SignByteArray2Base64"
    /\ verified.op = "none"
    /\ \E k \in {PublicKey(p) : p \in keys} \cup {NilPub}, m \in Messages :
         \E b \in {signed.b64, <<Pad64>>} :
           LET r == VerifyBase64String(k, b, m)
               d == DecodeString(b)
           IN  verified' = [op |-> "VerifyBase64String", key |-> k,
                            sig |-> IF d.ok THEN d.bytes ELSE NilBytes, msg |-> m,
                            err |-> r.err, hashed |-> r.hashed,
                            primitive |-> r.primitive]
    /\ UNCHANGED <<keys, signed>>
    /\ UNCHANGED fileVars

\* the caller drops the results and starts over with the keys it has
Forget ==
    /\ verified.op # "none"
    /\ signed' = NoSign
    /\ verified' = NoVerify
    /\ UNCHANGED keys
    /\ UNCHANGED fileVars

NextSign ==
    \/ CreateRSAKeyPair
    \/ CreateRSAKeyPairFails
    \/ CallSignByteArray
    \/ CallSignByteArray2Base64
    \/ CallVerifyByteArray
    \/ CallVerifyBase64String
    \/ Forget


\* ------------------------------------------------------------ file system
MaxSuffix == 1
MaxCalls == 2

publicKeyFileSuffix == ".pub"

\* a path is a stem followed by suffixes
RECURSIVE PathsUpTo(_)
PathsUpTo(n) ==
    IF n = 0 THEN {<<"id_rsa">>}
    ELSE LET shorter == PathsUpTo(n - 1)
         IN  shorter \cup {Append(q, publicKeyFileSuffix) : q \in shorter}

\* the names callers pass, and the paths these calls touch
Names == PathsUpTo(MaxSuffix)
Paths == PathsUpTo(MaxSuffix + 1)

\* the content of a path that does not exist
Absent == << [kind |-> "absent", type |-> "", b64 |-> <<>>] >>

Procs == {1, 2}

\* an existence check that takes an empty file for no file
StatOkNonEmpty(f, path) == f[path] # Absent /\ f[path] # <<>>

\* os.Stat(path) returns no error
StatOk(f, path) == f[path] # Absent

\* a second check of the private key path
SecondStatPathNoSuffix(name) == name

\* the path of the second os.Stat
SecondStatPath(name) == Append(name, publicKeyFileSuffix)

\* os.Create with O_EXCL: an existing file is an error
OsCreateExcl(f, path, envOk) ==
    IF ~envOk THEN [errno |-> "EACCES", fs |-> f]
    ELSE IF f[path] # Absent THEN [errno |-> "EEXIST", fs |-> f]
    ELSE [errno |-> "", fs |-> [f EXCEPT ![path] = <<>>]]

\* os.Create(path): O_RDWR|O_CREATE|O_TRUNC, an existing file is truncated;
\* envOk tells whether the environment lets the file be created
OsCreate(f, path, envOk) ==
    IF ~envOk THEN [errno |-> "EACCES", fs |-> f]
    ELSE [errno |-> "", fs |-> [f EXCEPT ![path] = <<>>]]

\* what a file holds after text is written at its start through a fresh handle
Overlay(old, text) ==
    IF Len(text) >= Len(old) THEN text
    ELSE text \o SubSeq(old, Len(text) + 1, Len(old))

\* a write of text through pem.Encode that the environment cuts after n lines
FileWrite(f, path, text, n) == [f EXCEPT ![path] = Overlay(f[path], SubSeq(text, 1, n))]

NoLoad == [op |-> "none", path |-> <<>>, priv |-> NilKey, pub |-> NilPub, err |-> "nil"]

InitFiles ==
    /\ fs = [q \in Paths |-> Absent]
    /\ pc = [p \in Procs |-> "idle"]
    /\ outfileName = [p \in Procs |-> <<>>]
    /\ privKeyFile = [p \in Procs |-> "nil"]
    /\ pubKeyFile = [p \in Procs |-> "nil"]
    /\ deferred = [p \in Procs |-> {}]
    /\ privateKey = [p \in Procs |-> NilKey]
    /\ err = [p \in Procs |-> "nil"]
    /\ existedAtCall = [p \in Procs |-> FALSE]
    /\ afterFailure = [p \in Procs |-> FALSE]
    /\ failed = {}
    /\ raced = {}
    /\ loaded = NoLoad
    /\ calls = 0

Init == InitSign /\ InitFiles

\* the state of a handle after the deferred Close calls of a return
Closed(p, name, handle) == IF name \in deferred[p] /\ handle = "open" THEN "closed" ELSE handle

\* the call of p returns e: the deferred Close calls run
Return(p, e) ==
    /\ pc' = [pc EXCEPT ![p] = "done"]
    /\ err' = [err EXCEPT ![p] = e]
    /\ privKeyFile' = [privKeyFile EXCEPT ![p] = Closed(p, "privKeyFile", @)]
    /\ pubKeyFile' = [pubKeyFile EXCEPT ![p] = Closed(p, "pubKeyFile", @)]
    /\ deferred' = [deferred EXCEPT ![p] = {}]

\* a call that fails after it has created the private key file
ReturnFailed(p, e) ==
    /\ Return(p, e)
    /\ failed' = failed \cup {[name |-> outfileName[p], pub |-> pubKeyFile[p] # "nil"]}

\* CreateRSAKeyPair2File(name) is called
Call(p, name) ==
    /\ pc[p] = "idle"
    /\ calls < MaxCalls
    /\ calls' = calls + 1
    /\ pc' = [pc EXCEPT ![p] = "statPriv"]
    /\ outfileName' = [outfileName EXCEPT ![p] = name]
    /\ existedAtCall' = [existedAtCall EXCEPT ![p] =
                          StatOk(fs, name) \/ StatOk(fs, Append(name, publicKeyFileSuffix))]
    /\ afterFailure' = [afterFailure EXCEPT ![p] = \E f \in failed : f.name = name]
    /\ UNCHANGED <<fs, privKeyFile, pubKeyFile, deferred, privateKey, err,
                   failed, raced, loaded>>
    /\ UNCHANGED signVars

\* line 192: os.Stat(outfileName)
StatPriv(p) ==
    /\ pc[p] = "statPriv"
    /\ IF StatOk(fs, outfileName[p])
       THEN Return(p, "PrivExists")
       ELSE /\ pc' = [pc EXCEPT ![p] = "statPub"]
            /\ UNCHANGED <<err, privKeyFile, pubKeyFile, deferred>>
    /\ UNCHANGED <<fs, outfileName, privateKey, existedAtCall, afterFailure, failed,
                   raced, loaded, calls>>
    /\ UNCHANGED signVars

\* line 195: os.Stat(outfileName + publicKeyFileSuffix)
StatPub(p) ==
    /\ pc[p] = "statPub"
    /\ IF StatOk(fs, SecondStatPath(outfileName[p]))
       THEN /\ Return(p, "PubExists")
            /\ UNCHANGED raced
       ELSE /\ pc' = [pc EXCEPT ![p] = "createPriv"]
            /\ raced' = IF \E q \in Procs \ {p} : /\ pc[q] = "createPriv"
                                                    /\ outfileName[q] = outfileName[p]
                         THEN Procs ELSE raced
            /\ UNCHANGED <<err, privKeyFile, pubKeyFile, deferred>>
    /\ UNCHANGED <<fs, outfileName, privateKey, existedAtCall, afterFailure, failed,
                   loaded, calls>>
    /\ UNCHANGED signVars

\* line 198: os.Create(outfileName)
CreatePriv(p) ==
    /\ pc[p] = "createPriv"
    /\ \E envOk \in BOOLEAN :
         LET r == OsCreate(fs, outfileName[p], envOk)
         IN  /\ fs' = r.fs
             /\ IF r.errno # ""
                THEN /\ Return(p, IF r.errno = "EEXIST" THEN "CreatePrivErr:EEXIST"
                                  ELSE "CreatePrivErr:EACCES")
                     /\ UNCHANGED failed
                ELSE /\ pc' = [pc EXCEPT ![p] = "createPub"]
                     /\ privKeyFile' = [privKeyFile EXCEPT ![p] = "open"]
                     /\ UNCHANGED <<err, pubKeyFile, deferred, failed>>
    /\ UNCHANGED <<outfileName, privateKey, existedAtCall, afterFailure, raced, loaded, calls>>
    /\ UNCHANGED signVars

\* lines 201 to 205: os.Create(outfileName + publicKeyFileSuffix), and on
\* success the two defer statements
CreatePub(p) ==
    /\ pc[p] = "createPub"
    /\ \E envOk \in BOOLEAN :
         LET r == OsCreate(fs, Append(outfileName[p], publicKeyFileSuffix), envOk)
         IN  /\ fs' = r.fs
             /\ IF r.errno # ""
                THEN /\ ReturnFailed(p, IF r.errno = "EEXIST" THEN "CreatePubErr:EEXIST"
                                        ELSE "CreatePubErr:EACCES")
                ELSE /\ pc' = [pc EXCEPT ![p] = "generate"]
                     /\ pubKeyFile' = [pubKeyFile EXCEPT ![p] = "open"]
                     /\ deferred' = [deferred EXCEPT ![p] = {"privKeyFile", "pubKeyFile"}]
                     /\ UNCHANGED <<err, privKeyFile, failed>>
    /\ UNCHANGED <<outfileName, privateKey, existedAtCall, afterFailure, raced, loaded, calls>>
    /\ UNCHANGED signVars

\* createRSAKeyPair2, line 170: rsa.GenerateKey
Generate(p) ==
    /\ pc[p] = "generate"
    /\ \/ \E k \in KeyPool :
            /\ privateKey' = [privateKey EXCEPT ![p] = k]
            /\ pc' = [pc EXCEPT ![p] = "writePriv"]
            /\ UNCHANGED <<err, privKeyFile, pubKeyFile, deferred, failed>>
       \/ /\ ReturnFailed(p, "GenerationError")
          /\ UNCHANGED privateKey
    /\ UNCHANGED <<fs, outfileName, existedAtCall, afterFailure, raced, loaded, calls>>
    /\ UNCHANGED signVars

\* createRSAKeyPair2, line 174: WritePrivateKey(privKeyFile, privateKey)
WritePriv(p) ==
    /\ pc[p] = "writePriv"
    /\ LET text == WritePrivateKey(privateKey[p])
       IN  \E n \in 0..Len(text) :
             /\ fs' = FileWrite(fs, outfileName[p], text, n)
             /\ IF n < Len(text)
                THEN ReturnFailed(p, "WritePrivErr")
                ELSE /\ pc' = [pc EXCEPT ![p] = "writePub"]
                     /\ UNCHANGED <<err, privKeyFile, pubKeyFile, deferred, failed>>
    /\ UNCHANGED <<outfileName, privateKey, existedAtCall, afterFailure, raced, loaded, calls>>
    /\ UNCHANGED signVars

\* createRSAKeyPair2, line 177: WritePublicKey(pubKeyFile, &privateKey.PublicKey)
WritePub(p) ==
    /\ pc[p] = "writePub"
    /\ LET text == WritePublicKey(PublicKey(privateKey[p]))
       IN  \E n \in 0..Len(text) :
             /\ fs' = FileWrite(fs, Append(outfileName[p], publicKeyFileSuffix), text, n)
             /\ IF n < Len(text)
                THEN ReturnFailed(p, "WritePubErr")
                ELSE /\ Return(p, "nil")
                     /\ UNCHANGED failed
    /\ UNCHANGED <<outfileName, privateKey, existedAtCall, afterFailure, raced, loaded, calls>>
    /\ UNCHANGED signVars

\* LoadPrivateKey(filename), by a caller whose call has returned
CallLoadPrivateKey(p, filename) ==
    /\ pc[p] = "done"
    /\ loaded.op = "none"
    /\ loaded' =
         IF fs[filename] = Absent
         THEN [op |-> "LoadPrivateKey", path |-> filename, priv |-> NilKey,
               pub |-> NilPub, err |-> "IOError"]
         ELSE LET r == ParsePrivateKey(fs[filename])
              IN  [op |-> "LoadPrivateKey", path |-> filename, priv |-> r.key,
                   pub |-> NilPub, err |-> r.err]
    /\ UNCHANGED <<fs, pc, outfileName, privKeyFile, pubKeyFile, deferred, privateKey,
                   err, existedAtCall, afterFailure, failed, raced, calls>>
    /\ UNCHANGED signVars

\* LoadPublicKey(filename), by a caller whose call has returned
CallLoadPublicKey(p, filename) ==
    /\ pc[p] = "done"
    /\ loaded.op = "none"
    /\ loaded' =
         IF fs[filename] = Absent
         THEN [op |-> "LoadPublicKey", path |-> filename, priv |-> NilKey,
               pub |-> NilPub, err |-> "IOError"]
         ELSE LET r == ParsePublicKey(fs[filename])
              IN  [op |-> "LoadPublicKey", path |-> filename, priv |-> NilKey,
                   pub |-> r.key, err |-> r.err]
    /\ UNCHANGED <<fs, pc, outfileName, privKeyFile, pubKeyFile, deferred, privateKey,
                   err, existedAtCall, afterFailure, failed, raced, calls>>
    /\ UNCHANGED signVars

\* the caller is done with the results of its call
Finish(p) ==
    /\ pc[p] = "done"
    /\ pc' = [pc EXCEPT ![p] = "idle"]
    /\ outfileName' = [outfileName EXCEPT ![p] = <<>>]
    /\ privKeyFile' = [privKeyFile EXCEPT ![p] = "nil"]
    /\ pubKeyFile' = [pubKeyFile EXCEPT ![p] = "nil"]
    /\ privateKey' = [privateKey EXCEPT ![p] = NilKey]
    /\ err' = [err EXCEPT ![p] = "nil"]
    /\ existedAtCall' = [existedAtCall EXCEPT ![p] = FALSE]
    /\ afterFailure' = [afterFailure EXCEPT ![p] = FALSE]
    /\ raced' = raced \ {p}
    /\ loaded' = NoLoad
    /\ UNCHANGED <<fs, deferred, failed, calls>>
    /\ UNCHANGED signVars

\* callers of CreateRSAKeyPair2File running concurrently
Next ==
    \/ \E p \in Procs, name \in Names : Call(p, name)
    \/ \E p \in Procs : StatPriv(p)
    \/ \E p \in Procs : StatPub(p)
    \/ \E p \in Procs : CreatePriv(p)
    \/ \E p \in Procs : CreatePub(p)
    \/ \E p \in Procs : Generate(p)
    \/ \E p \in Procs : WritePriv(p)
    \/ \E p \in Procs : WritePub(p)
    \/ \E p \in Procs : Finish(p)

Spec == Init /\ [][Next]_vars

\* one call at a time
CallAlone(p, name) ==
    /\ \A q \in Procs : pc[q] = "idle"
    /\ Call(p, name)

NextSeq ==
    \/ \E p \in Procs, name \in Names : CallAlone(p, name)
    \/ \E p \in Procs : StatPriv(p)
    \/ \E p \in Procs : StatPub(p)
    \/ \E p \in Procs : CreatePriv(p)
    \/ \E p \in Procs : CreatePub(p)
    \/ \E p \in Procs : Generate(p)
    \/ \E p \in Procs : WritePriv(p)
    \/ \E p \in Procs : WritePub(p)
    \/ \E p \in Procs, q \in Paths : CallLoadPrivateKey(p, q)
    \/ \E p \in Procs, q \in Paths : CallLoadPublicKey(p, q)
    \/ \E p \in Procs : Finish(p)

SpecSeq == Init /\ [][NextSeq]_vars

\* calls of the signing and verification functions
SpecSign == Init /\ [][NextSign]_vars

\* ---------------------------------------------------- files: the properties
\* the call failed because a path of it exists
AlreadyExists(e) == e \in {"PrivExists", "PubExists"}

\* C3: with one call at a time, a call that begins when its private or its
\* public key path exists changes no file and creates none, and returns the
\* already-exists error
C3_NeverOverwritten ==
    [][\A p \in Procs :
         (pc[p] # "idle" /\ existedAtCall[p])
         => /\ fs' = fs
            /\ pc'[p] = "done" => AlreadyExists(err'[p])]_vars

\* the private key path is free and the public key path is taken
C3_Witness ==
    \E p \in Procs :
      /\ pc[p] = "done"
      /\ existedAtCall[p]
      /\ err[p] = "PubExists"
      /\ fs[outfileName[p]] = Absent
      /\ fs[Append(outfileName[p], publicKeyFileSuffix)] # Absent

\* a call that has returned without error, and a key file of it just loaded
Loaded(p, op, path) ==
    /\ pc[p] = "done"
    /\ err[p] = "nil"
    /\ loaded.op = op
    /\ loaded.path = path

\* C4: the public key file a successful CreateRSAKeyPair2File call has written
\* is read back by LoadPublicKey as the public key of the generated pair
C4_PublicKeyRoundTrip ==
    \A p \in Procs :
      Loaded(p, "LoadPublicKey", Append(outfileName[p], publicKeyFileSuffix))
      => (loaded.err = "nil" /\ loaded.pub = PublicKey(privateKey[p]))

\* C5: the private key file a successful CreateRSAKeyPair2File call has written
\* is read back by LoadPrivateKey as the generated private key
C5_PrivateKeyRoundTrip ==
    \A p \in Procs :
      Loaded(p, "LoadPrivateKey", outfileName[p])
      => (loaded.err = "nil" /\ loaded.priv = privateKey[p])

C5_Witness ==
    \E p \in Procs :
      /\ Loaded(p, "LoadPrivateKey", outfileName[p])
      /\ fs[outfileName[p]] = WritePrivateKey(privateKey[p])
      /\ loaded.err = "nil"
      /\ loaded.priv = privateKey[p]
      /\ loaded.priv \in KeyPool

\* C8: when CreateRSAKeyPair2File has returned, no file handle it opened is
\* still open
C8_HandlesReleased ==
    \A p \in Procs :
      pc[p] = "done" => (privKeyFile[p] # "open" /\ pubKeyFile[p] # "open")

\* the call failed because a path of it exists, found by os.Stat or by os.Create
FoundExisting(e) ==
    \/ AlreadyExists(e)
    \/ e \in {"CreatePrivErr:EEXIST", "CreatePubErr:EEXIST"}

\* C9: two concurrent callers with the same name that both passed both
\* existence checks before either created a file are both past the checks, and
\* neither fails because a file exists
C9_RaceUndetected ==
    \A p \in raced :
      /\ pc[p] \notin {"idle", "statPriv", "statPub"}
      /\ ~FoundExisting(err[p])

\* both callers raced, created and wrote both files, and returned no error
C9_Witness ==
    /\ raced = Procs
    /\ outfileName[1] = outfileName[2]
    /\ \A p \in Procs : pc[p] = "done" /\ err[p] = "nil"
    /\ privateKey[1] # privateKey[2]

\* C10: the files a failed call has created stay, and a later call of the
\* same name returns the already-exists error
C10_FailedCallBlocksName ==
    /\ \A f \in failed :
         /\ StatOk(fs, f.name)
         /\ f.pub => StatOk(fs, Append(f.name, publicKeyFileSuffix))
    /\ \A p \in Procs :
         (pc[p] = "done" /\ afterFailure[p]) => AlreadyExists(err[p])

\* a call after one that failed to create the public key file
C10_Witness ==
    \E p \in Procs :
      /\ pc[p] = "done"
      /\ afterFailure[p]
      /\ err[p] = "PrivExists"
      /\ fs[outfileName[p]] = <<>>
      /\ fs[Append(outfileName[p], publicKeyFileSuffix)] = Absent

\* ------------------------------------------------- signing: the properties
\* a signing call with a key pair's private key over the digest of its message
SignedDigestOfMsg ==
    /\ signed.op # "none"
    /\ signed.key # NilKey
    /\ signed.digest = Sha256bytes2bytes(signed.msg)

\* C1: a signature made with the private key over the digest of M verifies
\* without error against M with the matching public key
C1_SignThenVerify ==
    ( /\ SignedDigestOfMsg
      /\ verified.op # "none"
      /\ verified.key = PublicKey(signed.key)
      /\ verified.sig = signed.sig
      /\ verified.msg = signed.msg )
    => (signed.err = "nil" /\ verified.err = "nil")

C1_Witness ==
    /\ SignedDigestOfMsg
    /\ signed.msg = <<104, 33>>
    /\ verified.op = "VerifyByteArray"
    /\ verified.key = PublicKey(signed.key)
    /\ verified.sig = signed.sig
    /\ verified.msg = signed.msg
    /\ verified.err = "nil"

\* C2: the signature of M fails verification with Mismatch against any other
\* message and under the public key of any other key pair
C2_OnlySignedVerifies ==
    ( /\ SignedDigestOfMsg
      /\ signed.err = "nil"
      /\ verified.op # "none"
      /\ verified.sig = signed.sig
      /\ verified.key # NilPub
      /\ (verified.msg # signed.msg \/ verified.key # PublicKey(signed.key)) )
    => verified.err = "Mismatch"

\* "hello world" is signed, "hello world!" is verified
C2_Witness ==
    /\ SignedDigestOfMsg
    /\ signed.msg = <<104>>
    /\ verified.op = "VerifyByteArray"
    /\ verified.sig = signed.sig
    /\ verified.key = PublicKey(signed.key)
    /\ verified.msg = <<104, 33>>
    /\ verified.err = "Mismatch"

C2_WitnessOtherKey ==
    /\ SignedDigestOfMsg
    /\ verified.op = "VerifyByteArray"
    /\ verified.sig = signed.sig
    /\ verified.key # NilPub
    /\ verified.key # PublicKey(signed.key)
    /\ verified.msg = signed.msg
    /\ verified.err = "Mismatch"

\* C6: with a nil private key SignByteArray returns a nil signature and no
\* error without calling rsa.SignPSS, and SignByteArray2Base64 returns the
\* empty string and no error
C6_NilKeyNoSigning ==
    (signed.op # "none" /\ signed.key = NilKey)
    => /\ signed.err = "nil"
       /\ ~signed.primitive
       /\ signed.sig = NilBytes
       /\ signed.b64 = <<>>

C6_Witness ==
    /\ signed.op = "SignByteArray2Base64"
    /\ signed.key = NilKey
    /\ signed.digest = Sha256bytes2bytes(<<104>>)
    /\ signed.b64 = <<>>
    /\ signed.err = "nil"

\* C7: VerifyByteArray with a nil public key fails with NilKey whatever the
\* signature and the message, with a key and a nil signature it fails with
\* NilDigest, and in both cases neither the digest is recomputed nor
\* rsa.VerifyPSS called
C7_NilChecksFirst ==
    verified.op = "VerifyByteArray"
    => /\ verified.key = NilPub
          => (verified.err = "NilKey" /\ ~verified.hashed /\ ~verified.primitive)
       /\ (verified.key # NilPub /\ verified.sig = NilBytes)
          => (verified.err = "NilDigest" /\ ~verified.hashed /\ ~verified.primitive)

C7_Witness ==
    /\ verified.op = "VerifyByteArray"
    /\ verified.key = NilPub
    /\ verified.sig = NilBytes
    /\ verified.err = "NilKey"

C7_WitnessNilDigest ==
    /\ verified.op = "VerifyByteArray"
    /\ verified.key # NilPub
    /\ verified.sig = NilBytes
    /\ verified.err = "NilDigest"

====
